---- MODULE Spec2Model ----
(***************************************************************************)
(* A model of dz12.py: the validated fields (Phone, Birthday), the contact *)
(* Record, the AddressBook, the input_error wrapper and the command loop   *)
(* of main().                                                              *)
(*                                                                         *)
(* Python strings are sequences of one-character strings, so that length,  *)
(* isdigit, "-" in arg, strptime and lower() are computed as the code      *)
(* computes them.  Python's None is the one-element sequence None, which   *)
(* is no string of characters.                                             *)
(***************************************************************************)
EXTENDS Integers, Sequences, FiniteSets, TLC

VARIABLES
    book,      \* address_book.data: insertion-ordered sequence of [key, rec]
    disk,      \* the content of the file system's one regular file
    line,      \* the last input the program read (a command line, or an API call)
    response,  \* what the last operation printed or returned
    status,    \* "running" | "terminated" | "crashed": the state of main()'s loop
    arg,       \* the input of the pure-function specifications
    out        \* the result of the pure-function specifications

vars == <<book, disk, line, response, status, arg, out>>

-----------------------------------------------------------------------------
(* Characters and strings *)

None == <<"None">>

DigitChar == <<"0", "1", "2", "3", "4", "5", "6", "7", "8", "9">>

Digits == {DigitChar[i] : i \in 1..10}

\* str.isdigit(): non-empty and every character a digit
isdigit(s) == Len(s) > 0 /\ \A i \in 1..Len(s) : s[i] \in Digits

\* x in s, for a one-character x
HasChar(s, c) == \E i \in 1..Len(s) : s[i] = c

\* str.lower() on the letters the inputs use
LowerChar(c) ==
    CASE c = "A" -> "a"
      [] c = "B" -> "b"
      [] c = "L" -> "l"
      [] c = "O" -> "o"
      [] OTHER -> c

lower(s) == [i \in 1..Len(s) |-> LowerChar(s[i])]

DigitVal(c) == CHOOSE n \in 0..9 : DigitChar[n + 1] = c

\* int(s) for a string of digits with optional surrounding blanks
RECURSIVE IntOfDigits(_)
IntOfDigits(s) ==
    IF Len(s) = 0 THEN 0
    ELSE 10 * IntOfDigits(SubSeq(s, 1, Len(s) - 1)) + DigitVal(s[Len(s)])

StripBlank(s) == IF Len(s) > 0 /\ s[1] = " " THEN Tail(s) ELSE s

int(s) == IntOfDigits(StripBlank(s))

-----------------------------------------------------------------------------
(* The calendar of datetime *)

IsLeap(y) == (y % 4 = 0 /\ y % 100 # 0) \/ y % 400 = 0

DaysInMonth(y, m) ==
    CASE m \in {1, 3, 5, 7, 8, 10, 12} -> 31
      [] m \in {4, 6, 9, 11} -> 30
      [] OTHER -> IF IsLeap(y) THEN 29 ELSE 28

\* datetime(y, m, d) is constructible
ValidDate(y, m, d) ==
    /\ y \in 1..9999
    /\ m \in 1..12
    /\ d \in 1..DaysInMonth(y, m)

RECURSIVE DaysBeforeMonth(_, _)
DaysBeforeMonth(y, m) ==
    IF m = 1 THEN 0 ELSE DaysBeforeMonth(y, m - 1) + DaysInMonth(y, m - 1)

DaysBeforeYear(y) ==
    LET p == y - 1 IN p * 365 + (p \div 4) - (p \div 100) + (p \div 400)

\* date.toordinal()
Ordinal(y, m, d) == DaysBeforeYear(y) + DaysBeforeMonth(y, m) + d

-----------------------------------------------------------------------------
(* datetime.strptime(s, "%Y-%m-%d") *)

\* %m : 1[0-2]|0[1-9]|[1-9]
MonthTok(t) ==
    \/ Len(t) = 2 /\ t[1] = "1" /\ t[2] \in {"0", "1", "2"}
    \/ Len(t) = 2 /\ t[1] = "0" /\ t[2] \in Digits \ {"0"}
    \/ Len(t) = 1 /\ t[1] \in Digits \ {"0"}

\* %d : 3[0-1]|[1-2]\d|0[1-9]|[1-9]| [1-9]
DayTok(t) ==
    \/ Len(t) = 2 /\ t[1] = "3" /\ t[2] \in {"0", "1"}
    \/ Len(t) = 2 /\ t[1] \in {"1", "2"} /\ t[2] \in Digits
    \/ Len(t) = 2 /\ t[1] = "0" /\ t[2] \in Digits \ {"0"}
    \/ Len(t) = 1 /\ t[1] \in Digits \ {"0"}
    \/ Len(t) = 2 /\ t[1] = " " /\ t[2] \in Digits \ {"0"}

\* the lengths k of the month token for which the format's pattern matches
\* the whole of s
MonthLens(s) ==
    {k \in {1, 2} :
        /\ Len(s) >= 6 + k + 1
        /\ isdigit(SubSeq(s, 1, 4))
        /\ s[5] = "-"
        /\ MonthTok(SubSeq(s, 6, 5 + k))
        /\ s[6 + k] = "-"
        /\ DayTok(SubSeq(s, 7 + k, Len(s)))}

NoDate == [ok |-> FALSE, year |-> 0, month |-> 0, day |-> 0]

\* datetime(y, m, d), or the ValueError of a day that is not in the calendar
DateOf(y, m, d) ==
    IF ValidDate(y, m, d)
    THEN [ok |-> TRUE, year |-> y, month |-> m, day |-> d]
    ELSE NoDate

\* the date of s when its month token has k characters
DateAt(s, k) ==
    DateOf(int(SubSeq(s, 1, 4)), int(SubSeq(s, 6, 5 + k)),
           int(SubSeq(s, 7 + k, Len(s))))

DateFrom(s, ks) == IF ks = {} THEN NoDate ELSE DateAt(s, CHOOSE k \in ks : TRUE)

\* ok = FALSE stands for the ValueError strptime raises
strptime(s) == DateFrom(s, MonthLens(s))

-----------------------------------------------------------------------------
(* Phone and Birthday *)

PhoneLen == 10
MinYear == 1900
MaxYear == 2100

ErrPhone == "Phone number must be 10 digits"
ErrBirthday == "Invalid birthday format. Use YYYY-MM-DD"

validate_phone(phone) == Len(phone) = PhoneLen /\ isdigit(phone)

\* year, month, day = map(int, birthday.split("-")) and the range check, for
\* the date p that strptime made of the string
InRange(p) ==
    /\ p.ok
    /\ MinYear <= p.year /\ p.year <= MaxYear
    /\ 1 <= p.month /\ p.month <= 12
    /\ 1 <= p.day /\ p.day <= 31

LenientAt(s, k) ==
    /\ k # 0
    /\ int(SubSeq(s, 1, 4)) \in MinYear..MaxYear
    /\ int(SubSeq(s, 6, 5 + k)) \in 1..12
    /\ int(SubSeq(s, 7 + k, Len(s))) \in 1..31

LenientFrom(s, ks) == LenientAt(s, IF ks = {} THEN 0 ELSE CHOOSE k \in ks : TRUE)

\* the mutant: the calendar check of strptime left out, the ranges alone
validate_birthday_lenient(birthday) == LenientFrom(birthday, MonthLens(birthday))

validate_birthday(birthday) == InRange(strptime(birthday))

\* Birthday.value = birthday: the stored value, or the ValueError raised
BirthdaySet(birthday) ==
    IF birthday # None /\ ~validate_birthday(birthday)
    THEN [raised |-> TRUE, msg |-> ErrBirthday, value |-> None]
    ELSE [raised |-> FALSE, msg |-> "", value |-> birthday]

\* Phone.value = phone
PhoneSet(phone) ==
    IF phone # None /\ ~validate_phone(phone)
    THEN [raised |-> TRUE, msg |-> ErrPhone, value |-> None]
    ELSE [raised |-> FALSE, msg |-> "", value |-> phone]

-----------------------------------------------------------------------------
(* Results of calls: exc = "" when the call returns, else the exception's  *)
(* type; msg is str(e); val is the returned value.                         *)

Msg(text, who) == [text |-> text, who |-> who]

Ok(v) == [exc |-> "", msg |-> Msg("", <<>>), val |-> v]

Raise(exc, m) == [exc |-> exc, msg |-> m, val |-> None]

-----------------------------------------------------------------------------
(* Record *)

RecordWith(name, b) ==
    IF b.raised THEN Raise("ValueError", Msg(b.msg, <<>>))
    ELSE Ok([name |-> name, phones |-> <<>>, birthday |-> b.value])

\* Record.__init__(name, birthday)
Record(name, birthday) == RecordWith(name, BirthdaySet(birthday))

add_phone(rec, phone) ==
    IF phone = None THEN Ok(rec)
    ELSE IF validate_phone(phone)
         THEN Ok([rec EXCEPT !.phones = Append(@, PhoneSet(phone).value)])
         ELSE Raise("ValueError", Msg(ErrPhone, <<>>))

\* the index of the first phone whose value is v, 0 when there is none
FirstIndex(phones, v) ==
    IF \E i \in 1..Len(phones) : phones[i] = v
    THEN CHOOSE i \in 1..Len(phones) :
            /\ phones[i] = v
            /\ \A j \in 1..(i - 1) : phones[j] # v
    ELSE 0

RemoveAt(s, i) == SubSeq(s, 1, i - 1) \o SubSeq(s, i + 1, Len(s))

remove_phone(rec, number) ==
    LET i == FirstIndex(rec.phones, number)
    IN  IF i = 0 THEN rec ELSE [rec EXCEPT !.phones = RemoveAt(@, i)]

EditAt(rec, i, name, new_phone) ==
    IF i = 0
    THEN Raise("ValueError", Msg("Contact '{name}' not found", name))
    ELSE IF new_phone # None /\ ~validate_phone(new_phone)
    THEN Raise("ValueError", Msg(ErrPhone, <<>>))
    ELSE Ok([rec EXCEPT !.phones[i] = PhoneSet(new_phone).value])

edit_phone(rec, name, new_phone) ==
    EditAt(rec, FirstIndex(rec.phones, name), name, new_phone)

SecondsPerDay == 86400

DayOutOfRange == Raise("ValueError", Msg("day is out of range for month", <<>>))

\* (next_birthday - today).days, next_birthday the midnight of day `next`
DaysLeft(next, today, secs) ==
    Ok(((next - today) * SecondsPerDay - secs) \div SecondsPerDay)

\* next_birthday = datetime(today.year + 1, month, day)
NextYear(b, now, today) ==
    IF ValidDate(now.year + 1, b.month, b.day)
    THEN DaysLeft(Ordinal(now.year + 1, b.month, b.day), today, now.secs)
    ELSE DayOutOfRange

\* if next_birthday < today, with next_birthday the midnight of day `this`
ThisYear(b, now, this, today) ==
    IF this < today \/ (this = today /\ 0 < now.secs)
    THEN NextYear(b, now, today)
    ELSE DaysLeft(this, today, now.secs)

\* next_birthday = datetime(today.year, birth_date.month, birth_date.day)
DaysFrom(b, now) ==
    IF ValidDate(now.year, b.month, b.day)
    THEN ThisYear(b, now, Ordinal(now.year, b.month, b.day),
                  Ordinal(now.year, now.month, now.day))
    ELSE DayOutOfRange

\* Record.days_to_birthday() when datetime.now() is `now`
\* ([year, month, day, secs], secs the seconds since midnight)
days_to_birthday(rec, now) ==
    IF rec.birthday = None \/ rec.birthday = <<>> THEN Ok(None)
    ELSE DaysFrom(strptime(rec.birthday), now)

-----------------------------------------------------------------------------
(* JSON: json.dump writes None as null, json.load reads null as None *)

Null == <<"null">>

ToJson(v) == IF v = None THEN Null ELSE v

FromJson(v) == IF v = Null THEN None ELSE v

serialize(rec) ==
    [name |-> ToJson(rec.name),
     phones |-> [i \in 1..Len(rec.phones) |-> ToJson(rec.phones[i])],
     birthday |-> ToJson(rec.birthday)]

RECURSIVE AddPhones(_, _)
\* for phone in phones: record.add_phone(phone), stopping at the first raise
AddPhones(res, phones) ==
    IF res.exc # "" \/ Len(phones) = 0 THEN res
    ELSE AddPhones(add_phone(res.val, Head(phones)), Tail(phones))

deserialize(data) ==
    AddPhones(Record(FromJson(data.name), FromJson(data.birthday)),
              [i \in 1..Len(data.phones) |-> FromJson(data.phones[i])])

-----------------------------------------------------------------------------
(* AddressBook: self.data as the sequence of its items, in insertion order *)

Keys(data) == {data[i].key : i \in 1..Len(data)}

KeyIndex(data, name) == CHOOSE i \in 1..Len(data) : data[i].key = name

Lookup(data, name) == data[KeyIndex(data, name)].rec

\* data[key] = rec
SetItem(data, key, rec) ==
    IF key \in Keys(data)
    THEN [data EXCEPT ![KeyIndex(data, key)].rec = rec]
    ELSE Append(data, [key |-> key, rec |-> rec])

\* the mutant: the item is appended even when the key is there already
add_record_append(data, rec) == Append(data, [key |-> rec.name, rec |-> rec])

add_record(data, rec) == SetItem(data, rec.name, rec)

delete(data, name) ==
    IF name \in Keys(data) THEN RemoveAt(data, KeyIndex(data, name)) ELSE data

\* find(name) returns a record (and not None)
Found(data, name) == name \in Keys(data)

\* x in s for strings: s has x as a substring
Contains(s, x) ==
    \E i \in 1..(Len(s) - Len(x) + 1) : SubSeq(s, i, i + Len(x) - 1) = x

search_contacts(data, query) ==
    LET Hit(rec) == \/ Contains(rec.name, query)
                    \/ \E i \in 1..Len(rec.phones) : Contains(rec.phones[i], query)
    IN  SelectSeq([i \in 1..Len(data) |-> data[i].rec], Hit)

(* Files.  A path is "good" (a regular file the process may read and       *)
(* write) or "bad" (open() raises OSError).  The content of the good file  *)
(* is [kind, contacts]: kind "absent" (no such file), "garbage" (no JSON), *)
(* "nokey" (a JSON object without 'contacts'), or "json".                  *)

FileOf(kind, contacts) == [kind |-> kind, contacts |-> contacts]

\* save_to_file: the content written; exc for a path that cannot be opened
save_to_file(data, filename) ==
    IF filename = "bad"
    THEN Raise("OSError", Msg("No such file or directory", <<>>))
    ELSE Ok(FileOf("json", [i \in 1..Len(data) |-> serialize(data[i].rec)]))

RECURSIVE BuildDict(_, _)
\* one record of the comprehension: r is Record.deserialize(record)
BuildStep(acc, contacts, r) ==
    IF r.exc # "" THEN r
    ELSE BuildDict(Ok(SetItem(acc.val, FromJson(Head(contacts).name), r.val)),
                   Tail(contacts))

\* {record['name']: Record.deserialize(record) for record in contacts}
\* acc is Ok(the dict so far), or the exception that ended the build
BuildDict(acc, contacts) ==
    IF acc.exc # "" \/ Len(contacts) = 0 THEN acc
    ELSE BuildStep(acc, contacts, deserialize(Head(contacts)))

RECURSIVE LoadInPlace(_, _)
InPlaceStep(acc, contacts, r) ==
    IF r.exc # "" THEN [r EXCEPT !.val = acc.val]
    ELSE LoadInPlace(Ok(SetItem(acc.val, FromJson(Head(contacts).name), r.val)),
                     Tail(contacts))

\* the mutant's loop: each record is stored in self.data as soon as it is built
LoadInPlace(acc, contacts) ==
    IF Len(contacts) = 0 THEN acc
    ELSE InPlaceStep(acc, contacts, deserialize(Head(contacts)))

\* open(filename, 'r') and json.load(file): the exception raised, "" for none
ReadError(filename, file) ==
    IF filename = "bad" \/ file.kind = "absent" THEN "OSError"
    ELSE IF file.kind = "garbage" THEN "ValueError"
    ELSE IF file.kind = "nokey" THEN "KeyError"
    ELSE ""

ReadRaise(data, exc) ==
    [Raise(exc, Msg(CASE exc = "OSError" -> "No such file or directory"
                      [] exc = "ValueError" -> "Expecting value"
                      [] OTHER -> "'contacts'", <<>>))
        EXCEPT !.val = data]

\* self.data = d when the comprehension gave d, self.data kept when it raised
Assign(data, d) == IF d.exc # "" THEN [d EXCEPT !.val = data] ELSE d

\* the mutant: self.data is updated record by record instead of being
\* replaced by the finished dict
load_from_file_in_place(data, filename, file) ==
    IF ReadError(filename, file) # "" THEN ReadRaise(data, ReadError(filename, file))
    ELSE LoadInPlace(Ok(data), file.contacts)

\* load_from_file: val is self.data after the call, raised or not
load_from_file(data, filename, file) ==
    IF ReadError(filename, file) # "" THEN ReadRaise(data, ReadError(filename, file))
    ELSE Assign(data, BuildDict(Ok(<<>>), file.contacts))

-----------------------------------------------------------------------------
(* Inputs: date strings in the zero-padded form YYYY-MM-DD *)

D(n) == DigitChar[n + 1]

Pad2(n) == <<D(n \div 10), D(n % 10)>>

Pad4(n) == <<D(n \div 1000), D((n \div 100) % 10), D((n \div 10) % 10), D(n % 10)>>

Fmt(y, m, d) == Pad4(y) \o <<"-">> \o Pad2(m) \o <<"-">> \o Pad2(d)

NoResponse == Msg("", <<>>)
NoFile == FileOf("absent", <<>>)
NoOut == Ok(None)

-----------------------------------------------------------------------------
(* SpecBirthday: Birthday.value = arg, for arg drawn from BirthdayInputs *)

MaxMonthIn == 13
MaxDayIn == 32
YearsIn == {1899, 1900, 2020, 2021, 2100, 2101}

OtherBirthdayInputs ==
    {None,
     <<>>,
     <<"2", "0", "2", "1", "-", "2", "-", "3">>,
     <<"2", "0", "2", "1", "-", "0", "2", "-", " ", "3">>,
     <<"2", "0", "2", "1", "/", "0", "2", "/", "0", "3">>,
     <<"2", "1", "-", "0", "2", "-", "0", "3">>,
     <<"2", "0", "2", "1", "-", "0", "2", "-", "0", "3", "0">>,
     <<"a", "b", "c">>}

BirthdayInputs ==
    {Fmt(y, m, d) : y \in YearsIn, m \in 0..MaxMonthIn, d \in 0..MaxDayIn}
        \cup OtherBirthdayInputs

InitBirthday ==
    /\ arg \in BirthdayInputs
    /\ out = NoOut
    /\ status = "ready"
    /\ book = <<>> /\ disk = NoFile /\ line = <<>> /\ response = NoResponse

\* birthday_field.value = arg
AssignBirthday ==
    /\ status = "ready"
    /\ out' = BirthdaySet(arg)
    /\ status' = "done"
    /\ UNCHANGED <<book, disk, line, response, arg>>

NextBirthday == AssignBirthday

SpecBirthday == InitBirthday /\ [][NextBirthday]_vars

Accepted == status = "done" /\ ~out.raised /\ out.value = arg

-----------------------------------------------------------------------------
(* SpecDays: days_to_birthday() of a record with a stored birthday, at a   *)
(* clock reading drawn from Clocks                                         *)

MonthSamples == {1, 2, 3, 12}
DaySamples == {1, 15, 28, 29, 30, 31}
BirthYears == {1990, 2000}
ClockYears == {2023, 2024}
Noon == 12 * 3600
ClockSecs == {0, Noon}

StoredBirthdays ==
    {b \in {Fmt(y, m, d) : y \in BirthYears, m \in MonthSamples, d \in DaySamples} :
        validate_birthday(b)}

Clocks ==
    {c \in [year : ClockYears, month : MonthSamples, day : DaySamples,
            secs : ClockSecs] : ValidDate(c.year, c.month, c.day)}

InitDays ==
    /\ arg \in [birthday : StoredBirthdays, now : Clocks]
    /\ out = NoOut
    /\ status = "ready"
    /\ book = <<>> /\ disk = NoFile /\ line = <<>> /\ response = NoResponse

\* Record(name, arg.birthday).days_to_birthday() with datetime.now() = arg.now
CallDaysToBirthday ==
    /\ status = "ready"
    /\ out' = days_to_birthday(Record(<<"a", "l">>, arg.birthday).val, arg.now)
    /\ status' = "done"
    /\ UNCHANGED <<book, disk, line, response, arg>>

NextDays == CallDaysToBirthday

SpecDays == InitDays /\ [][NextDays]_vars

BirthMonth == int(SubSeq(arg.birthday, 6, 7))
BirthDay == int(SubSeq(arg.birthday, 9, 10))

\* C9: for a birthday other than 29 February the result is the number of days
\* from today's date to the next date with the birthday's month and day that
\* is not before today's date: at least 0, and 0 on the birthday itself
C9_DaysToNext ==
    (status = "done" /\ ~(BirthMonth = 2 /\ BirthDay = 29)) =>
        LET today == Ordinal(arg.now.year, arg.now.month, arg.now.day)
            this == Ordinal(arg.now.year, BirthMonth, BirthDay)
            next == IF this < today
                    THEN Ordinal(arg.now.year + 1, BirthMonth, BirthDay)
                    ELSE this
        IN  /\ out.exc = ""
            /\ out.val = next - today
            /\ out.val >= 0
            /\ (this = today => out.val = 0)

-----------------------------------------------------------------------------
(* The strings the inputs are drawn from *)

Al == <<"a", "l">>
Bo == <<"b", "o">>
P1 == <<"1", "2", "3", "4", "5", "6", "7", "8", "9", "0">>
P2 == <<"0", "9", "8", "7", "6", "5", "4", "3", "2", "1">>
Short == <<"1", "2", "3", "4", "5">>
B1 == Fmt(1990, 5, 20)
BFeb30 == Fmt(2021, 2, 30)
BOld == Fmt(1800, 1, 1)

\* a contact object of a JSON file
Contact(name, phones, birthday) ==
    [name |-> name, phones |-> phones, birthday |-> birthday]

\* what the file may hold before the program first writes it
PresetFiles ==
    {NoFile,
     FileOf("garbage", <<>>),
     FileOf("nokey", <<>>),
     FileOf("json", <<>>),
     FileOf("json", <<Contact(Al, <<P1>>, B1), Contact(Bo, <<P2>>, Null)>>),
     FileOf("json", <<Contact(Al, <<P2>>, Null), Contact(Bo, <<Short>>, Null)>>),
     FileOf("json", <<Contact(Al, <<P2>>, Null), Contact(Bo, <<P1>>, BFeb30)>>),
     FileOf("json", <<Contact(Bo, <<P1>>, Null), Contact(Bo, <<P2>>, B1)>>),
     FileOf("json", <<Contact(Al, <<Null, P1>>, Null)>>)}

-----------------------------------------------------------------------------
(* SpecRec and SpecLoad: the methods of Record and AddressBook called      *)
(* directly.  line is the method called, out its result without the value. *)

MaxPhones == 1

RecNames == {Al, Bo}

\* the method called last
Call(op) == [op |-> op]

Outcome(r) == [exc |-> r.exc, msg |-> r.msg]

InitRec ==
    /\ book = <<>>
    /\ disk = NoFile
    /\ line = Call("init")
    /\ out = Outcome(Ok(None))
    /\ status = "api"
    /\ response = NoResponse
    /\ arg = None

InitLoad ==
    /\ book = <<>>
    /\ disk \in PresetFiles
    /\ line = Call("init")
    /\ out = Outcome(Ok(None))
    /\ status = "api"
    /\ response = NoResponse
    /\ arg = None

\* book.add_record(Record(name, birthday))
NewRecord ==
    \E name \in RecNames, birthday \in {None, B1, BFeb30} :
        LET r == Record(name, birthday)
        IN  /\ line' = Call("add_record")
            /\ out' = Outcome(r)
            /\ book' = IF r.exc = "" THEN add_record(book, r.val) ELSE book
            /\ UNCHANGED <<disk, status, response, arg>>

\* book[name].add_phone(phone)
AddPhone ==
    \E name \in Keys(book), phone \in {P1, None, Short} :
        LET r == add_phone(Lookup(book, name), phone)
        IN  /\ Len(Lookup(book, name).phones) < MaxPhones
            /\ line' = Call("add_phone")
            /\ out' = Outcome(r)
            /\ book' = IF r.exc = "" THEN SetItem(book, name, r.val) ELSE book
            /\ UNCHANGED <<disk, status, response, arg>>

\* book[name].remove_phone(number)
RemovePhone ==
    \E name \in Keys(book), number \in {P1, None} :
        /\ line' = Call("remove_phone")
        /\ out' = Outcome(Ok(None))
        /\ book' = SetItem(book, name, remove_phone(Lookup(book, name), number))
        /\ UNCHANGED <<disk, status, response, arg>>

\* book[name].edit_phone(old, new)
EditPhone ==
    \E name \in Keys(book), old \in {P1, None}, new \in {P1, None, Short} :
        LET r == edit_phone(Lookup(book, name), old, new)
        IN  /\ line' = Call("edit_phone")
            /\ out' = Outcome(r)
            /\ book' = IF r.exc = "" THEN SetItem(book, name, r.val) ELSE book
            /\ UNCHANGED <<disk, status, response, arg>>

\* book.delete(name)
DeleteRecord ==
    \E name \in RecNames :
        /\ line' = Call("delete")
        /\ out' = Outcome(Ok(None))
        /\ book' = delete(book, name)
        /\ UNCHANGED <<disk, status, response, arg>>

\* book.save_to_file(filename)
SaveFile ==
    \E filename \in {"good", "bad"} :
        LET r == save_to_file(book, filename)
        IN  /\ line' = Call("save")
            /\ out' = Outcome(r)
            /\ disk' = IF r.exc = "" THEN r.val ELSE disk
            /\ UNCHANGED <<book, status, response, arg>>

\* book.load_from_file(filename)
LoadFile ==
    \E filename \in {"good", "bad"} :
        LET r == load_from_file(book, filename, disk)
        IN  /\ line' = Call("load")
            /\ out' = Outcome(r)
            /\ book' = r.val
            /\ UNCHANGED <<disk, status, response, arg>>

NextRec ==
    \/ NewRecord
    \/ AddPhone
    \/ RemovePhone
    \/ EditPhone
    \/ DeleteRecord
    \/ SaveFile
    \/ LoadFile

SpecRec == InitRec /\ [][NextRec]_vars

NextLoad ==
    \/ NewRecord
    \/ AddPhone
    \/ DeleteRecord
    \/ LoadFile

SpecLoad == InitLoad /\ [][NextLoad]_vars

\* C6: saving the book and loading the file gives back the same names in the
\* same order and, for each contact, the same phone list and the same birthday
C6_RoundTrip ==
    LET saved == save_to_file(book, "good")
        loaded == load_from_file(<<>>, "good", saved.val)
    IN  /\ saved.exc = ""
        /\ loaded.exc = ""
        /\ Len(loaded.val) = Len(book)
        /\ \A i \in 1..Len(book) :
            /\ loaded.val[i].key = book[i].key
            /\ loaded.val[i].rec.phones = book[i].rec.phones
            /\ loaded.val[i].rec.birthday = book[i].rec.birthday

NonNull(s) == SelectSeq(s, LAMBDA v : v # Null)

\* the book holds the records of the file and nothing else
ExactlyFile(data, file) ==
    /\ Keys(data) = {file.contacts[j].name : j \in 1..Len(file.contacts)}
    /\ Cardinality(Keys(data)) = Len(data)
    /\ \A i \in 1..Len(data) :
        \E j \in 1..Len(file.contacts) :
            /\ file.contacts[j].name = data[i].key
            /\ data[i].rec.name = file.contacts[j].name
            /\ data[i].rec.phones = NonNull(file.contacts[j].phones)
            /\ data[i].rec.birthday = FromJson(file.contacts[j].birthday)

\* C10: a load that returns leaves exactly the file's records in the book; a
\* load that raises leaves the book as it was
C10_AllOrNothing ==
    [][line'.op = "load" =>
        IF out'.exc = "" THEN ExactlyFile(book', disk) ELSE book' = book]_vars

\* a load raised on the last record of the file, with a record in the book
\* and a valid first record in the file
C10_Witness ==
    /\ line.op = "load"
    /\ out.exc = "ValueError"
    /\ out.msg.text = ErrPhone
    /\ Len(book) = 1 /\ book[1].key = Bo
    /\ Len(disk.contacts) = 2 /\ disk.contacts[1].name = Al

-----------------------------------------------------------------------------
(* The decorated command functions.  A call's result is [exc, msg, ret,    *)
(* data]: the exception raised ("" for none) with its message, the value   *)
(* returned, and address_book.data after the call.                         *)

Done(data, ret) == [exc |-> "", msg |-> NoResponse, ret |-> ret, data |-> data]

Failed(data, exc, m) == [exc |-> exc, msg |-> m, ret |-> None, data |-> data]

Say(text) == Msg(text, <<>>)

HasUnpack(m) == m.text = "not enough values to unpack"

\* the wrapper of input_error: what the decorated function returns
input_error(r) ==
    IF r.exc = "" THEN r.ret
    ELSE IF r.exc = "KeyError" THEN Say("Enter user name")
    ELSE IF r.exc = "ValueError" THEN r.msg
    ELSE IF r.exc = "IndexError"
         THEN IF HasUnpack(r.msg) THEN Say("Give me name and phone please")
              ELSE Say("Invalid input")
    ELSE r.msg

\* the loop over phones_and_birthday: [phones, birthday]
RECURSIVE SplitArgs(_, _)
SplitArgs(acc, args) ==
    IF Len(args) = 0 THEN acc
    ELSE LET a == Head(args)
             next == IF HasChar(a, "-")
                     THEN IF strptime(a).ok THEN [acc EXCEPT !.birthday = a]
                          ELSE acc
                     ELSE [acc EXCEPT !.phones = Append(@, a)]
         IN  SplitArgs(next, Tail(args))

\* what the caller of a decorated function gets: [data, ret]
Returned(r) == [data |-> r.data, ret |-> input_error(r)]

Added == Say("Contact added successfully")

EagerFilled(data, made, filled) ==
    IF made.exc # "" THEN Failed(data, made.exc, made.msg)
    ELSE IF filled.exc # ""
         THEN Failed(add_record(data, made.val), filled.exc, filled.msg)
         ELSE Done(add_record(data, filled.val), Added)

EagerMade(data, made, phones) ==
    Returned(EagerFilled(data, made, AddPhones(made, phones)))

\* the mutant: the record is stored before its phones are added
add_contact_eager(data, name, args) ==
    EagerMade(data,
              Record(name, SplitArgs([phones |-> <<>>, birthday |-> None],
                                     args).birthday),
              SplitArgs([phones |-> <<>>, birthday |-> None], args).phones)

\* address_book.add_record(record) once every phone is added
AddFilled(data, filled) ==
    IF filled.exc # "" THEN Failed(data, filled.exc, filled.msg)
    ELSE Done(add_record(data, filled.val), Added)

\* record = Record(name, birthday), then record.add_phone(phone) for each phone
AddParsed(data, name, parsed) ==
    Returned(AddFilled(data, AddPhones(Record(name, parsed.birthday),
                                       parsed.phones)))

\* add_contact(name, *args), decorated: [data, ret]
add_contact(data, name, args) ==
    AddParsed(data, name, SplitArgs([phones |-> <<>>, birthday |-> None], args))

ChangeEdited(data, name, e) ==
    IF e.exc # "" THEN Failed(data, e.exc, e.msg)
    ELSE Done(SetItem(data, name, e.val), Say("Phone number updated"))

\* record.edit_phone(record.phones[0].value, phone)
ChangeRecord(data, name, phone, record) ==
    IF Len(record.phones) = 0
    THEN Failed(data, "IndexError", Say("list index out of range"))
    ELSE ChangeEdited(data, name, edit_phone(record, record.phones[1], phone))

ChangeBody(data, name, phone) ==
    IF name \in Keys(data)
    THEN IF phone = <<>>
         THEN Failed(data, "ValueError", Say("Phone is missing"))
         ELSE ChangeRecord(data, name, phone, Lookup(data, name))
    ELSE Failed(data, "ValueError", Msg("Contact '{name}' not found", name))

\* change_phone(name, phone), decorated: [data, ret]
change_phone(data, name, phone) == Returned(ChangeBody(data, name, phone))

FindBody(data, name) ==
    IF name \in Keys(data)
    THEN IF Len(Lookup(data, name).phones) > 0
         THEN Done(data, Msg("{phones}", Lookup(data, name).phones))
         ELSE Done(data, Msg("No phones found for contact '{name}'", name))
    ELSE Failed(data, "ValueError", Msg("Contact '{name}' not found", name))

\* find_phone(name), decorated: the value returned
find_phone(data, name) == input_error(FindBody(data, name))

\* str(record) raises TypeError when a phone's value is None
StrRaises(data) ==
    \E i \in 1..Len(data) :
        \E j \in 1..Len(data[i].rec.phones) : data[i].rec.phones[j] = None

Listing(data) == [i \in 1..Len(data) |-> data[i].rec]

show_all_contacts(data) ==
    IF Len(data) = 0 THEN Done(data, Say("No contacts found"))
    ELSE IF StrRaises(data)
         THEN Failed(data, "TypeError", Say("sequence item 0: expected str instance"))
         ELSE Done(data, Msg("{records}", Listing(data)))

\* the indices idx after which input("Press Enter to continue...") is called
Pauses(n, batch_size) ==
    {idx \in 0..(n - 1) : (idx + 1) % batch_size = 0 /\ idx < n - 1}

show_contacts_batch(data, batch_size) ==
    IF Len(data) = 0 THEN Done(data, Say("No contacts found"))
    ELSE IF StrRaises(data)
         THEN Failed(data, "TypeError", Say("sequence item 0: expected str instance"))
         ELSE IF batch_size = 0
              THEN Failed(data, "ZeroDivisionError",
                          Say("integer division or modulo by zero"))
              ELSE Done(data, Msg("{records}", [records |-> Listing(data),
                                                pauses |-> Pauses(Len(data), batch_size)]))

-----------------------------------------------------------------------------
(* main(): the command loop.  An input line is [toks, trail]: its tokens   *)
(* (what str.split() gives, the tokens being one space apart) and whether  *)
(* blank space follows the last token.                                     *)

KwHello == <<"h", "e", "l", "l", "o">>
KwAdd == <<"a", "d", "d">>
KwChange == <<"c", "h", "a", "n", "g", "e">>
KwPhone == <<"p", "h", "o", "n", "e">>
KwShow == <<"s", "h", "o", "w">>
KwAll == <<"a", "l", "l">>
KwBatch == <<"b", "a", "t", "c", "h">>
KwBirthday == <<"b", "i", "r", "t", "h", "d", "a", "y">>
KwDelete == <<"d", "e", "l", "e", "t", "e">>
KwSave == <<"s", "a", "v", "e">>
KwLoad == <<"l", "o", "a", "d">>
KwSearch == <<"s", "e", "a", "r", "c", "h">>
KwGood == <<"g", "o", "o", "d">>
KwBye == <<"b", "y", "e">>
KwClose == <<"c", "l", "o", "s", "e">>
KwExit == <<"e", "x", "i", "t">>

Typed(toks, trail) == [toks |-> toks, trail |-> trail]

\* input("Enter a command: ").lower()
Lowered(typed) ==
    [toks |-> [i \in 1..Len(typed.toks) |-> lower(typed.toks[i])],
     trail |-> typed.trail]

\* command == "<the words>"
Is(command, words) == command.toks = words /\ ~command.trail

\* command.startswith("<kw> ")
StartsWith(command, kw) ==
    /\ Len(command.toks) >= 1
    /\ command.toks[1] = kw
    /\ (Len(command.toks) > 1 \/ command.trail)

\* command.startswith("show batch")
StartsWithShowBatch(command) ==
    /\ Len(command.toks) >= 2
    /\ command.toks[1] = KwShow
    /\ Len(command.toks[2]) >= Len(KwBatch)
    /\ SubSeq(command.toks[2], 1, Len(KwBatch)) = KwBatch

\* the branch of the if/elif chain that handles the command
Branch(command) ==
    IF Is(command, <<KwHello>>) THEN "hello"
    ELSE IF StartsWith(command, KwAdd) THEN "add"
    ELSE IF StartsWith(command, KwChange) THEN "change"
    ELSE IF StartsWith(command, KwPhone) THEN "phone"
    ELSE IF Is(command, <<KwShow, KwAll>>) THEN "show all"
    ELSE IF StartsWith(command, KwBirthday) THEN "birthday"
    ELSE IF StartsWith(command, KwDelete) THEN "delete"
    ELSE IF StartsWithShowBatch(command) THEN "show batch"
    ELSE IF Is(command, <<KwSave>>) THEN "save"
    ELSE IF Is(command, <<KwLoad>>) THEN "load"
    ELSE IF StartsWith(command, KwSearch) THEN "search"
    ELSE IF \/ Is(command, <<KwGood, KwBye>>)
            \/ Is(command, <<KwClose>>)
            \/ Is(command, <<KwExit>>) THEN "exit"
    ELSE "invalid"

RECURSIVE JoinSpace(_)
\* " ".join(toks)
JoinSpace(toks) ==
    IF Len(toks) = 0 THEN <<>>
    ELSE IF Len(toks) = 1 THEN toks[1]
    ELSE toks[1] \o <<" ">> \o JoinSpace(Tail(toks))

-----------------------------------------------------------------------------
(* Spec: the loop of main(), one action per branch of its if/elif chain *)

MaxBatch == 2

AlCap == <<"A", "l">>
Dashed == <<"1", "2", "-", "3", "4">>
Junk == <<"x">>

AddLines ==
    {Typed(<<KwAdd>>, TRUE), Typed(<<KwAdd, Al>>, FALSE),
     Typed(<<KwAdd, AlCap, P2>>, FALSE)}
        \cup {Typed(<<KwAdd, Al, p>>, FALSE) : p \in {P1, Short, Dashed}}
        \cup {Typed(<<KwAdd, Bo, p>>, FALSE) : p \in {P1, Dashed}}
        \cup {Typed(<<KwAdd, Al, P1, b>>, FALSE) : b \in {B1, BFeb30, BOld, Short}}

ChangeLines ==
    {Typed(<<KwChange>>, TRUE), Typed(<<KwChange, Al, P1, P2>>, FALSE),
     Typed(<<KwChange, Al>>, FALSE), Typed(<<KwChange, Bo, P1>>, FALSE)}
        \cup {Typed(<<KwChange, Al, p>>, FALSE) : p \in {P1, P2, Short}}

OneNameLines(kw) ==
    {Typed(<<kw>>, TRUE), Typed(<<kw, Al>>, FALSE), Typed(<<kw, Bo>>, FALSE),
     Typed(<<kw, Al, Bo>>, FALSE)}

ShowAllLines == {Typed(<<KwShow, KwAll>>, FALSE)}

ShowBatchLines ==
    {Typed(<<KwShow, KwBatch>>, FALSE), Typed(<<KwShow, KwBatch, Junk>>, FALSE)}
        \cup {Typed(<<KwShow, KwBatch, <<D(n)>>>>, FALSE) : n \in 0..MaxBatch}

HelloLines == {Typed(<<KwHello>>, FALSE)}
SaveLines == {Typed(<<KwSave>>, FALSE)}
LoadLines == {Typed(<<KwLoad>>, FALSE)}
SearchLines == {Typed(<<KwSearch, Al>>, FALSE), Typed(<<KwSearch, Short>>, FALSE)}
ExitLines ==
    {Typed(<<KwGood, KwBye>>, FALSE), Typed(<<KwClose>>, FALSE),
     Typed(<<KwExit>>, FALSE)}
InvalidLines ==
    {Typed(<<KwAdd>>, FALSE), Typed(<<Junk>>, FALSE),
     Typed(<<KwShow, KwAll>>, TRUE), Typed(<<KwShow>>, FALSE)}

MainClocks ==
    {[year |-> 2024, month |-> 5, day |-> 20, secs |-> Noon],
     [year |-> 2023, month |-> 3, day |-> 1, secs |-> 0]}

MainPresets == {NoFile}

\* the line read last, with the file name the save and load branches read
Line(command, file) ==
    [toks |-> command.toks, trail |-> command.trail, file |-> file]

Init ==
    /\ book = <<>>
    /\ disk \in MainPresets
    /\ line = Line(Typed(<<>>, FALSE), "")
    /\ response = Say("How can I help you?")
    /\ status = "running"
    /\ arg = None
    /\ out = NoOut

\* the branch prints and the loop reads on
Reply(command, m) ==
    /\ line' = Line(command, "")
    /\ response' = m
    /\ UNCHANGED <<status, arg, out>>

\* an exception leaves main()
Escape(command, file, exc) ==
    /\ line' = Line(command, file)
    /\ response' = Say(exc)
    /\ status' = "crashed"
    /\ UNCHANGED <<book, disk, arg, out>>

\* the branch printed what a decorated function returned
Took(command, r) ==
    /\ Reply(command, r.ret)
    /\ book' = r.data
    /\ UNCHANGED disk

\* a call outside the decorator: its exception escapes, else its value is printed
Shown(command, r) ==
    IF r.exc # "" THEN Escape(command, "", r.exc)
    ELSE /\ Reply(command, r.ret)
         /\ UNCHANGED <<book, disk>>

HelloBranch(command) ==
    /\ Branch(command) = "hello"
    /\ Reply(command, Say("How can I help you?"))
    /\ UNCHANGED <<book, disk>>

Hello ==
    /\ status = "running"
    /\ \E typed \in HelloLines : HelloBranch(Lowered(typed))

AddBranch(command, rest) ==
    /\ Branch(command) = "add"
    /\ IF Len(rest) < 2
       THEN /\ Reply(command, Say("Enter at least name and phone"))
            /\ UNCHANGED <<book, disk>>
       ELSE Took(command,
                 add_contact(book, rest[1],
                             IF Len(rest) > 2 THEN <<rest[2], rest[3]>>
                             ELSE <<rest[2]>>))

Add ==
    /\ status = "running"
    /\ \E typed \in AddLines :
        AddBranch(Lowered(typed), Tail(Lowered(typed).toks))

ChangeBranch(command, toks) ==
    /\ Branch(command) = "change"
    /\ IF Len(toks) < 2
       THEN Escape(command, "", "ValueError")
       ELSE Took(command,
                 change_phone(book, toks[2], JoinSpace(SubSeq(toks, 3, Len(toks)))))

Change ==
    /\ status = "running"
    /\ \E typed \in ChangeLines : ChangeBranch(Lowered(typed), Lowered(typed).toks)

PhoneBranch(command, toks) ==
    /\ Branch(command) = "phone"
    /\ IF Len(toks) # 2
       THEN Escape(command, "", "ValueError")
       ELSE /\ Reply(command, find_phone(book, toks[2]))
            /\ UNCHANGED <<book, disk>>

PhoneCmd ==
    /\ status = "running"
    /\ \E typed \in OneNameLines(KwPhone) :
        PhoneBranch(Lowered(typed), Lowered(typed).toks)

ShowAllBranch(command) ==
    /\ Branch(command) = "show all"
    /\ Shown(command, show_all_contacts(book))

ShowAll ==
    /\ status = "running"
    /\ \E typed \in ShowAllLines : ShowAllBranch(Lowered(typed))

\* print(response) or print(e) of the try block
Days(r) == IF r.exc # "" THEN r.msg ELSE Msg("{days}", r.val)

BirthdayBranch(command, toks, now) ==
    /\ Branch(command) = "birthday"
    /\ IF Len(toks) # 2
       THEN Escape(command, "", "ValueError")
       ELSE /\ IF Found(book, toks[2])
               THEN Reply(command, Days(days_to_birthday(Lookup(book, toks[2]), now)))
               ELSE Reply(command, Msg("Contact '{name}' not found", toks[2]))
            /\ UNCHANGED <<book, disk>>

BirthdayCmd ==
    /\ status = "running"
    /\ \E typed \in OneNameLines(KwBirthday), now \in MainClocks :
        BirthdayBranch(Lowered(typed), Lowered(typed).toks, now)

DeleteBranch(command, toks) ==
    /\ Branch(command) = "delete"
    /\ IF Len(toks) # 2
       THEN Escape(command, "", "ValueError")
       ELSE /\ book' = delete(book, toks[2])
            /\ Reply(command, Msg("Contact '{name}' deleted successfully", toks[2]))
            /\ UNCHANGED disk

Delete ==
    /\ status = "running"
    /\ \E typed \in OneNameLines(KwDelete) :
        DeleteBranch(Lowered(typed), Lowered(typed).toks)

ShowBatchBranch(command, parts) ==
    /\ Branch(command) = "show batch"
    /\ IF Len(parts) = 3 /\ isdigit(parts[3])
       THEN Shown(command, show_contacts_batch(book, int(parts[3])))
       ELSE /\ Reply(command, Say("Invalid 'show batch' command. Use 'show batch N', where N is the batch size."))
            /\ UNCHANGED <<book, disk>>

ShowBatch ==
    /\ status = "running"
    /\ \E typed \in ShowBatchLines :
        ShowBatchBranch(Lowered(typed), Lowered(typed).toks)

SaveBranch(command, filename, r) ==
    /\ Branch(command) = "save"
    /\ IF r.exc # ""
       THEN Escape(command, filename, r.exc)
       ELSE /\ disk' = r.val
            /\ line' = Line(command, filename)
            /\ response' = Say("Address book saved to {filename}")
            /\ UNCHANGED <<book, status, arg, out>>

Save ==
    /\ status = "running"
    /\ \E typed \in SaveLines, filename \in {"good", "bad"} :
        SaveBranch(Lowered(typed), filename, save_to_file(book, filename))

LoadBranch(command, filename, r) ==
    /\ Branch(command) = "load"
    /\ IF r.exc # ""
       THEN Escape(command, filename, r.exc)
       ELSE /\ book' = r.val
            /\ line' = Line(command, filename)
            /\ response' = Say("Address book loaded successfully")
            /\ UNCHANGED <<disk, status, arg, out>>

Load ==
    /\ status = "running"
    /\ \E typed \in LoadLines, filename \in {"good", "bad"} :
        LoadBranch(Lowered(typed), filename, load_from_file(book, filename, disk))

\* search_contacts raises TypeError at a phone whose value is None
SearchRaises(data, query) ==
    \E i \in 1..Len(data) :
        /\ ~Contains(data[i].rec.name, query)
        /\ \E j \in 1..Len(data[i].rec.phones) :
            /\ data[i].rec.phones[j] = None
            /\ \A k \in 1..(j - 1) : ~Contains(data[i].rec.phones[k], query)

Matches(results, query) ==
    IF Len(results) > 0 THEN Msg("{records}", results)
    ELSE Msg("No contacts found matching '{query}'", query)

SearchBranch(command, query) ==
    /\ Branch(command) = "search"
    /\ IF SearchRaises(book, query)
       THEN Escape(command, "", "TypeError")
       ELSE /\ Reply(command, Matches(search_contacts(book, query), query))
            /\ UNCHANGED <<book, disk>>

Search ==
    /\ status = "running"
    /\ \E typed \in SearchLines :
        SearchBranch(Lowered(typed), JoinSpace(Tail(Lowered(typed).toks)))

ExitBranch(command) ==
    /\ Branch(command) = "exit"
    /\ line' = Line(command, "")
    /\ response' = Say("Good bye!")
    /\ status' = "terminated"
    /\ UNCHANGED <<book, disk, arg, out>>

Exit ==
    /\ status = "running"
    /\ \E typed \in ExitLines : ExitBranch(Lowered(typed))

InvalidBranch(command) ==
    /\ Branch(command) = "invalid"
    /\ Reply(command, Say("Invalid command. Please try again"))
    /\ UNCHANGED <<book, disk>>

Invalid ==
    /\ status = "running"
    /\ \E typed \in InvalidLines : InvalidBranch(Lowered(typed))

Next ==
    \/ Hello
    \/ Add
    \/ Change
    \/ PhoneCmd
    \/ ShowAll
    \/ BirthdayCmd
    \/ Delete
    \/ ShowBatch
    \/ Save
    \/ Load
    \/ Search
    \/ Exit
    \/ Invalid

Spec == Init /\ [][Next]_vars

-----------------------------------------------------------------------------
(* The claims about the command loop.  line' is the command a step read,   *)
(* response' what the step printed.                                        *)

\* C1: no exception leaves the loop, whatever line it reads
C1_NoEscape == status # "crashed"

\* the step called add_contact(name, phone [, third])
CalledAdd(l) == Branch(l) = "add" /\ Len(l.toks) >= 3

\* the phone argument is not 10 digits, or the birthday argument is no
\* valid birthday
BadAddArgs(l) ==
    \/ ~validate_phone(l.toks[3])
    \/ Len(l.toks) >= 4 /\ ~validate_birthday(l.toks[4])

\* C2: add with a phone that is not 10 digits or a birthday that is not valid
\* answers with an error and stores no record
C2_AddRejects ==
    [][(CalledAdd(line') /\ BadAddArgs(line'))
        => (response' # Added /\ book' = book)]_vars

\* C3: an add_contact that returns an error message leaves the book as it was
C3_AddErrorKeepsBook ==
    [][(CalledAdd(line') /\ response' # Added) => book' = book]_vars

\* add was refused for a name that is stored with a phone
C3_Witness ==
    /\ CalledAdd(line)
    /\ response = Say(ErrPhone)
    /\ line.toks[2] \in Keys(book)
    /\ Lookup(book, line.toks[2]).phones = <<P1>>

\* the step called change_phone(name, phone)
CalledChange(l) == Branch(l) = "change" /\ Len(l.toks) >= 2

NewPhone(l) == JoinSpace(SubSeq(l.toks, 3, Len(l.toks)))

FirstPhoneSet(data, name, phone) ==
    [data EXCEPT ![KeyIndex(data, name)].rec.phones[1] = phone]

\* C4: change answers "Phone number updated" and replaces the first phone of a
\* stored contact when the phone is valid; it answers not found for a name
\* that is not stored, and with a validation message for a missing or
\* invalid phone, the book unchanged
C4_Change ==
    [][CalledChange(line') =>
        IF line'.toks[2] \notin Keys(book)
        THEN response' = Msg("Contact '{name}' not found", line'.toks[2])
             /\ book' = book
        ELSE IF ~validate_phone(NewPhone(line'))
        THEN response' \in {Say(ErrPhone), Say("Phone is missing")}
             /\ book' = book
        ELSE response' = Say("Phone number updated")
             /\ book' = FirstPhoneSet(book, line'.toks[2], NewPhone(line'))]_vars

\* the step called address_book.delete(name)
CalledDelete(l) == Branch(l) = "delete" /\ Len(l.toks) = 2

\* C5: delete removes a stored contact and reports success, and reports not
\* found for a name that is not stored
C5_Delete ==
    [][CalledDelete(line') =>
        IF line'.toks[2] \in Keys(book)
        THEN response' = Msg("Contact '{name}' deleted successfully", line'.toks[2])
             /\ book' = delete(book, line'.toks[2])
        ELSE response' = Msg("Contact '{name}' not found", line'.toks[2])
             /\ book' = book]_vars

\* C7: every key is the name of the record stored under it, and no key
\* occurs twice
C7_KeyIsName ==
    /\ \A i \in 1..Len(book) : book[i].key = book[i].rec.name
    /\ \A i, j \in 1..Len(book) : book[i].key = book[j].key => i = j

\* a load has filled the book with two records
C7_Witness ==
    /\ Branch(line) = "load"
    /\ status = "running"
    /\ Len(book) = 2

====
